---- MODULE Spec2Model ----
(***************************************************************************)
(* A model of pygmt/helpers/tempfile.py: the GMTTempFile context manager   *)
(* (construction with NamedTemporaryFile, __enter__, __exit__, read,       *)
(* loadtxt) running in one Python thread, next to an external process that *)
(* may write or delete files of the temporary directory between any two    *)
(* system calls of that thread.                                            *)
(***************************************************************************)
EXTENDS Integers, Sequences, FiniteSets, TLC

\* ---------------------------------------------------------------- bounds
NumHandles == 2
NumPaths == 2
MaxLen == 2

Handles == 1..NumHandles
Paths == 1..NumPaths

\* ------------------------------------------------------------ characters
Tab == "\t"
Space == " "
Newline == "\n"
Return == "\r"
Digit == "1"
Letter == "x"
Chars == {Tab, Space, Newline, Return, Digit, Letter}

\* every file content of at most MaxLen characters
Texts == UNION {[1..n -> Chars] : n \in 0..MaxLen}
\* what the external writer writes in the life-cycle specification: nothing,
\* or one tab-separated row of numbers as GMT writes it
SampleTexts == {<< >>, <<Digit, Tab, Digit, Newline>>}

\* ------------------------------------------------------------ filesystem
AbsentFile == [exists |-> FALSE, content |-> << >>]
NewFile == [exists |-> TRUE, content |-> << >>]

VARIABLES
    files,      \* the temporary directory: path -> [exists, content]
    name,       \* self.name of each handle: << >> before construction, else <<path>>
    released,   \* per handle: __exit__ has returned at least once
    pc,         \* where the Python thread is: [at, h, p, exc]
    last        \* the latest step and what it gave its caller

vars == <<files, name, released, pc, last>>

Idle == [at |-> "idle", h |-> 0, p |-> 0, exc |-> "none"]
Result(op, h, arg, outcome, value) ==
    [op |-> op, h |-> h, arg |-> arg, outcome |-> outcome, value |-> value]

\* a file is present at path p
Exists(fs, p) == fs[p].exists

\* mkstemp inside NamedTemporaryFile: a new empty file, opened O_EXCL
CreateFile(fs, p) == [fs EXCEPT ![p] = NewFile]

\* a removal that reports success and leaves the file in place
RemoveNothing(fs, p) == fs
\* a removal that empties the whole directory
RemoveEverything(fs, p) == [q \in DOMAIN fs |-> AbsentFile]
\* os.remove / os.unlink on an existing file
RemoveFile(fs, p) == [fs EXCEPT ![p] = AbsentFile]

Init ==
    /\ files = [p \in Paths |-> AbsentFile]
    /\ name = [h \in Handles |-> << >>]
    /\ released = [h \in Handles |-> FALSE]
    /\ pc = Idle
    /\ last = Result("none", 0, "none", "ok", << >>)

\* ------------------------------------------------- reading and parsing
\* open(self.name): text mode with universal newlines, so "\r\n" and a lone
\* "\r" both reach the reader as "\n"
RECURSIVE TextMode(_)
TextMode(s) ==
    IF s = << >> THEN << >>
    ELSE IF Head(s) = Return
         THEN IF Len(s) >= 2 /\ s[2] = Newline
              THEN <<Newline>> \o TextMode(Tail(Tail(s)))
              ELSE <<Newline>> \o TextMode(Tail(s))
         ELSE <<Head(s)>> \o TextMode(Tail(s))

\* content.replace("\t", " ", 1): only the first tab is replaced
ReplaceFirstTab(s) ==
    IF \E i \in 1..Len(s) : s[i] = Tab
    THEN LET first == CHOOSE i \in 1..Len(s) :
                          s[i] = Tab /\ \A j \in 1..(i - 1) : s[j] # Tab
         IN  [s EXCEPT ![first] = Space]
    ELSE s
\* content.replace("\t", " ")
RECURSIVE ReplaceTabs(_)
ReplaceTabs(s) ==
    IF s = << >> THEN << >>
    ELSE <<IF Head(s) = Tab THEN Space ELSE Head(s)>> \o ReplaceTabs(Tail(s))

\* what read(keep_tabs) returns for a file holding `content`
ReadValue(content, keep_tabs) ==
    IF keep_tabs THEN TextMode(content) ELSE ReplaceTabs(TextMode(content))

\* an open that creates the file when it is missing (mode "a+")
OpenAlwaysOk(fs, p) == "ok"
\* open() of an absent file raises FileNotFoundError
OpenOutcome(fs, p) == IF Exists(fs, p) THEN "ok" ELSE "FileNotFoundError"

\* a removal wrapped in try/except FileNotFoundError
RemoveOutcomeTolerant(fs, p, denied) ==
    IF Exists(fs, p) /\ denied THEN "PermissionError" ELSE "ok"
\* os.remove: ENOENT for an absent file, EACCES/EPERM when the OS refuses
RemoveOutcome(fs, p, denied) ==
    IF ~Exists(fs, p) THEN "FileNotFoundError"
    ELSE IF denied THEN "PermissionError"
    ELSE "ok"

\* the non-empty runs of s between separator characters
RECURSIVE SplitAcc(_, _, _, _)
SplitAcc(s, seps, cur, acc) ==
    IF s = << >> THEN (IF cur = << >> THEN acc ELSE Append(acc, cur))
    ELSE IF Head(s) \in seps
         THEN SplitAcc(Tail(s), seps, << >>,
                       IF cur = << >> THEN acc ELSE Append(acc, cur))
         ELSE SplitAcc(Tail(s), seps, Append(cur, Head(s)), acc)
Split(s, seps) == SplitAcc(s, seps, << >>, << >>)

\* numpy.loadtxt: the whitespace-separated fields of every non-blank line
Rows(text) ==
    LET lines == Split(text, {Newline})
        fields == [i \in 1..Len(lines) |-> Split(lines[i], {Space, Tab})]
    IN  SelectSeq(fields, LAMBDA r : r # << >>)

IsNumber(tok) == \A i \in 1..Len(tok) : tok[i] = Digit
RECURSIVE ToFloat(_)
ToFloat(tok) ==
    IF tok = << >> THEN 0
    ELSE 10 * ToFloat(SubSeq(tok, 1, Len(tok) - 1)) + 1

\* numpy.loadtxt with default ndmin: one-element axes are squeezed away
Squeeze(table) ==
    IF table = << >> THEN << >>
    ELSE IF Len(table) = 1 /\ Len(table[1]) = 1 THEN table[1][1]
    ELSE IF Len(table) = 1 THEN table[1]
    ELSE IF Len(table[1]) = 1 THEN [i \in 1..Len(table) |-> table[i][1]]
    ELSE table

\* numpy.loadtxt(self.name) on an existing file holding `content`
LoadtxtResult(content) ==
    LET rows == Rows(TextMode(content))
        numeric == \A i \in 1..Len(rows) : \A j \in 1..Len(rows[i]) : IsNumber(rows[i][j])
        regular == \A i \in 1..Len(rows) : Len(rows[i]) = Len(rows[1])
    IN  IF numeric /\ regular
        THEN [outcome |-> "ok",
              value |-> Squeeze([i \in 1..Len(rows) |->
                                  [j \in 1..Len(rows[i]) |-> ToFloat(rows[i][j])]])]
        ELSE [outcome |-> "ValueError", value |-> << >>]

\* an __enter__ that creates the file anew
EnterRecreates(fs, p) == CreateFile(fs, p)
\* __enter__ returns self and leaves the filesystem as it is
EnterFiles(fs, p) == fs

\* an __exit__ that removes without looking
ExitCheckSkipped(fs, p) == TRUE
\* __exit__: if os.path.exists(self.name)
ExitCheck(fs, p) == Exists(fs, p)

\* ---------------------------------------------------------------- actions
\* __init__, first half: NamedTemporaryFile creates a file under a name that
\* does not exist in the temporary directory, and self.name is taken from it
InitCreate(h, p) ==
    /\ pc.at = "idle"
    /\ name[h] = << >>
    /\ ~Exists(files, p)
    /\ files' = CreateFile(files, p)
    /\ pc' = [at |-> "init_close", h |-> h, p |-> p, exc |-> "none"]
    /\ last' = Result("mkstemp", h, "none", "pending", << >>)
    /\ UNCHANGED <<name, released>>

\* __init__, second half: leaving the with block closes the temporary file;
\* delete is left at its default, so closing unlinks it
InitClose(denied) ==
    /\ pc.at = "init_close"
    /\ LET outcome == RemoveOutcome(files, pc.p, denied) IN
        /\ files' = IF outcome = "ok" THEN RemoveFile(files, pc.p) ELSE files
        /\ name' = IF outcome = "ok" THEN [name EXCEPT ![pc.h] = <<pc.p>>] ELSE name
        /\ last' = Result("init", pc.h, "none", outcome, << >>)
    /\ pc' = Idle
    /\ UNCHANGED released

Enter(h) ==
    /\ pc.at = "idle"
    /\ name[h] # << >>
    /\ files' = EnterFiles(files, name[h][1])
    /\ last' = Result("enter", h, "none", "ok", << >>)
    /\ UNCHANGED <<name, released, pc>>

\* __exit__(*args), the existence check; with no file there it returns at once
Exit(h, exc) ==
    /\ pc.at = "idle"
    /\ name[h] # << >>
    /\ IF ExitCheck(files, name[h][1])
       THEN /\ pc' = [at |-> "exit_remove", h |-> h, p |-> name[h][1], exc |-> exc]
            /\ last' = Result("exit_check", h, exc, "pending", <<released[h]>>)
            /\ UNCHANGED released
       ELSE /\ pc' = Idle
            /\ last' = Result("exit", h, exc, "ok", <<released[h], "absent">>)
            /\ released' = [released EXCEPT ![h] = TRUE]
    /\ UNCHANGED <<files, name>>

\* __exit__, os.remove(self.name): its error, if any, reaches the caller
ExitRemove(denied) ==
    /\ pc.at = "exit_remove"
    /\ LET outcome == RemoveOutcome(files, pc.p, denied) IN
        /\ files' = IF outcome = "ok" THEN RemoveFile(files, pc.p) ELSE files
        /\ released' = IF outcome = "ok" THEN [released EXCEPT ![pc.h] = TRUE]
                       ELSE released
        /\ last' = Result("exit", pc.h, pc.exc, outcome,
                        <<released[pc.h], IF outcome = "ok" THEN "removed" ELSE "kept">>)
    /\ pc' = Idle
    /\ UNCHANGED name

Read(h, keep_tabs) ==
    /\ pc.at = "idle"
    /\ name[h] # << >>
    /\ LET p == name[h][1]
           outcome == OpenOutcome(files, p) IN
        last' = Result("read", h, keep_tabs, outcome,
                       IF outcome = "ok" THEN ReadValue(files[p].content, keep_tabs)
                       ELSE << >>)
    /\ UNCHANGED <<files, name, released, pc>>

Loadtxt(h) ==
    /\ pc.at = "idle"
    /\ name[h] # << >>
    /\ LET p == name[h][1]
           outcome == OpenOutcome(files, p)
           parsed == LoadtxtResult(files[p].content) IN
        last' = IF outcome = "ok"
                THEN Result("loadtxt", h, "none", parsed.outcome, parsed.value)
                ELSE Result("loadtxt", h, "none", outcome, << >>)
    /\ UNCHANGED <<files, name, released, pc>>

\* the external writer: any process that knows a path may (re)write the file
ExtWrite(p, text) ==
    /\ files' = [files EXCEPT ![p] = [exists |-> TRUE, content |-> text]]
    /\ last' = Result("ext_write", 0, "none", "ok", << >>)
    /\ UNCHANGED <<name, released, pc>>

\* an external process deletes the file
ExtDelete(p) ==
    /\ Exists(files, p)
    /\ files' = RemoveFile(files, p)
    /\ last' = Result("ext_delete", 0, "none", "ok", << >>)
    /\ UNCHANGED <<name, released, pc>>

Step(HS, PS, TS) ==
    \/ \E h \in HS, p \in PS : InitCreate(h, p)
    \/ \E denied \in BOOLEAN : InitClose(denied)
    \/ \E h \in HS : Enter(h)
    \/ \E h \in HS, exc \in {"none", "error"} : Exit(h, exc)
    \/ \E denied \in BOOLEAN : ExitRemove(denied)
    \/ \E h \in HS, keep_tabs \in BOOLEAN : Read(h, keep_tabs)
    \/ \E h \in HS : Loadtxt(h)
    \/ \E p \in PS, text \in TS : ExtWrite(p, text)
    \/ \E p \in PS : ExtDelete(p)

\* the life cycle of several handles over several paths
Next == Step(Handles, Paths, SampleTexts)
Spec == Init /\ [][Next]_vars

\* one handle and one path, every file content up to MaxLen characters
NextRead == Step({1}, {1}, Texts)
SpecRead == Init /\ [][NextRead]_vars

\* ------------------------------------------------------------ properties
PathOf(h) == name[h][1]
HandleOps == {"mkstemp", "init", "enter", "exit_check", "exit", "read", "loadtxt"}
ReadOps == {"read", "loadtxt"}
\* the step just taken completed a call on a constructed handle
Called(ops) == last.op \in ops /\ last.h \in Handles /\ name[last.h] # << >>

\* C1: right after __init__ has returned, a file exists at the handle's path
\* and it is empty.
C1_FileExistsAfterInit ==
    (last.op = "init" /\ last.outcome = "ok")
        => (Exists(files, PathOf(last.h)) /\ files[PathOf(last.h)].content = << >>)

\* C2: once __exit__ has returned, whether the scope ended normally or by an
\* error, no file exists at the handle's path.
C2_NoFileAfterExit ==
    (Called({"exit"}) /\ last.outcome = "ok") => ~Exists(files, PathOf(last.h))

\* __exit__ returned after an error in the scope, having removed a written file
C2_Witness ==
    /\ Called({"exit"}) /\ last.outcome = "ok"
    /\ last.arg = "error" /\ last.value[2] = "removed"

\* C3: read and loadtxt on a handle whose file is absent end in an error, and
\* the failed call changes neither the filesystem nor the handle's path.
C3_ReadOfAbsentFileFails ==
    [][\A h \in Handles :
          (/\ pc.at = "idle" /\ name[h] # << >> /\ ~Exists(files, name[h][1])
           /\ last'.op \in ReadOps /\ last'.h = h)
          => (/\ last'.outcome = "FileNotFoundError"
              /\ last'.value = << >>
              /\ files' = files /\ name' = name)]_vars

\* a read after release found no file and raised
C3_Witness ==
    /\ Called(ReadOps) /\ released[last.h]
    /\ last.outcome = "FileNotFoundError"

\* C4 as stated: __exit__ never raises.
C4_ExitNeverRaises == Called({"exit"}) => last.outcome = "ok"

\* C4 as amended: __exit__ returns without an error when no file is there at
\* its check and when its removal succeeds; it raises exactly when os.remove
\* fails, FileNotFoundError when the file went away after the check and
\* PermissionError when the removal is refused, the file then staying.
C4_ExitRaisesOnlyWhenRemoveFails ==
    [][last'.op = "exit" =>
          IF pc.at = "idle"
          THEN last'.outcome = "ok" /\ ~Exists(files, name[last'.h][1])
          ELSE /\ last'.outcome \in {"ok", "FileNotFoundError", "PermissionError"}
               /\ (last'.outcome = "FileNotFoundError") <=> ~Exists(files, pc.p)
               /\ (last'.outcome = "ok") => ~Exists(files', pc.p)
               /\ (last'.outcome = "PermissionError") => files' = files]_vars

\* the file was deleted between the check and the removal, and __exit__ raised
C4_Witness == Called({"exit"}) /\ last.outcome = "FileNotFoundError"

\* C5: __exit__ called when no file exists at the path returns without an
\* error and changes nothing; a second release leaves what the first left.
C5_ReleaseIdempotent ==
    [][\A h \in Handles :
          (/\ pc.at = "idle" /\ name[h] # << >> /\ ~Exists(files, name[h][1])
           /\ last'.op \in {"exit", "exit_check"} /\ last'.h = h)
          => (/\ pc'.at = "idle"
              /\ last'.outcome = "ok"
              /\ files' = files /\ name' = name
              /\ released'[h])]_vars

\* a second release of an already released handle has returned
C5_Witness ==
    /\ Called({"exit"}) /\ last.outcome = "ok"
    /\ last.value[1] = TRUE /\ last.value[2] = "absent"

\* C6 as stated: read() returns the content with every tab replaced by one
\* space and every other character unchanged; read(keep_tabs=True) returns the
\* content as written.
C6_ReadReturnsContent ==
    (Called({"read"}) /\ last.outcome = "ok") =>
        LET c == files[PathOf(last.h)].content
            r == last.value
        IN  /\ Len(r) = Len(c)
            /\ \A i \in 1..Len(c) :
                  r[i] = IF c[i] = Tab /\ ~last.arg THEN Space ELSE c[i]

\* the characters of c that reach the reader: the "\n" of a "\r\n" does not
Kept(c) == {i \in 1..Len(c) : ~(c[i] = Newline /\ i > 1 /\ c[i - 1] = Return)}
Rank(c, i) == Cardinality({k \in Kept(c) : k <= i})
Shown(ch, keep_tabs) ==
    IF ch = Return THEN Newline
    ELSE IF ch = Tab /\ ~keep_tabs THEN Space
    ELSE ch

\* C6 as amended: read returns the content with every line ending "\r\n" or
\* "\r" read as "\n" and, unless keep_tabs, every tab replaced by one space;
\* every other character is unchanged and in order, and the file is not changed.
C6_ReadReturnsTextModeContent ==
    [][(last'.op = "read" /\ last'.outcome = "ok") =>
          LET c == files[name[last'.h][1]].content
              r == last'.value
          IN  /\ Len(r) = Cardinality(Kept(c))
              /\ \A i \in Kept(c) : r[Rank(c, i)] = Shown(c[i], last'.arg)
              /\ files' = files]_vars

\* read() returned for a file holding a tab and a carriage return
C6_Witness ==
    /\ Called({"read"}) /\ last.outcome = "ok" /\ ~last.arg
    /\ LET c == files[PathOf(last.h)].content
       IN  (\E i \in 1..Len(c) : c[i] = Tab) /\ (\E i \in 1..Len(c) : c[i] = Return)

\* C7 as stated: once __exit__ has returned, every later read or loadtxt on
\* the handle fails.
C7_ReleasedHandleNeverReads ==
    (Called(ReadOps) /\ released[last.h]) => last.outcome # "ok"

\* C7 as amended: once __exit__ has returned, the handle's own operations
\* never bring the file back, and read and loadtxt fail for as long as no file
\* is at the path; only an external write or a temporary file created under
\* the same name puts one there.
C7_ReleasedStaysAbsent ==
    [][\A h \in Handles :
          (released[h] /\ ~Exists(files, name[h][1])
           /\ last'.op \notin {"ext_write", "mkstemp"})
          => (/\ ~Exists(files', name'[h][1])
              /\ (last'.op \in ReadOps /\ last'.h = h)
                    => last'.outcome = "FileNotFoundError")]_vars

\* a released handle has been entered again and its file is still absent
C7_Witness ==
    /\ Called({"enter"}) /\ released[last.h]
    /\ ~Exists(files, PathOf(last.h))

\* C8: two handles that are constructed and not released have different paths.
Alive(h) == name[h] # << >> /\ ~released[h]
C8_AliveHandlesDiffer ==
    \A h1, h2 \in Handles : (h1 # h2 /\ Alive(h1) /\ Alive(h2)) => name[h1] # name[h2]

\* C9: a handle's operation leaves every other path as it was, __enter__,
\* read and loadtxt change no file at all, construction creates and __exit__
\* removes at most the file at the handle's own path, and a path once assigned
\* never changes.
C9_OnlyOwnPathTouched ==
    [][/\ \A h \in Handles : name[h] # << >> => name'[h] = name[h]
       /\ last'.op \in HandleOps =>
            LET own == IF last'.op = "mkstemp" THEN pc'.p
                       ELSE IF last'.op = "init" THEN pc.p
                       ELSE name[last'.h][1]
            IN  /\ \A q \in Paths \ {own} : files'[q] = files[q]
                /\ last'.op \in {"enter", "read", "loadtxt", "exit_check"}
                      => files' = files
                /\ last'.op = "mkstemp" => (~Exists(files, own) /\ files'[own] = NewFile)
                /\ last'.op = "exit" => files'[own] \in {files[own], AbsentFile}]_vars

\* __exit__ removed the handle's file while another path held a written file
C9_Witness ==
    /\ Called({"exit"}) /\ last.value[2] = "removed"
    /\ \E q \in Paths \ {PathOf(last.h)} : Exists(files, q) /\ files[q].content # << >>
====
